---------------------------- MODULE Spec2Model ----------------------------
(***************************************************************************)
(* camera_matrixifier: three capture drivers                               *)
(*   "ascii"   src/src/main.rs   camera -> ASCII art -> ffmpeg pipe        *)
(*   "overlay" src/src/video.rs  camera -> text overlay -> ffmpeg pipe     *)
(*   "still"   src/src/image.rs  camera -> text overlay -> frame.png       *)
(* and the pure per-frame stages they share (symbol ramp, blue mask,       *)
(* glyph drawing).                                                         *)
(***************************************************************************)
EXTENDS Integers, Sequences, FiniteSets, TLC

VARIABLES
    \* ---- driver state (Spec, FairSpec)
    driver,       \* which main() runs: "ascii" | "overlay" | "still"
    pc,           \* position of main(): spawn, pull, decode, render, write,
                  \* check, close, wait, exited
    encoder,      \* ffmpeg child: none | running | succeeded | failed
    stdinOpen,    \* the write end of the child's stdin pipe is open
    img,          \* <<width, height>> of the frame decoded in this iteration
    canvas,       \* <<width, height>> of the buffer handed to the sink
    frame_count,  \* main.rs: let mut frame_count
    written,      \* frames the sink accepted (saturates, see Accepted)
    lastWrite,    \* size in bytes of the last chunk written to the pipe
    pipeRem,      \* bytes written so far modulo the declared frame size
    decoded,      \* outcome of the last decode: none | ok | err
    err,          \* the error that ended the loop, "none" if none did
    exitCode,     \* process exit status, Running while main() runs
    waited,       \* ffmpeg.wait() returned
    reported,     \* exit status printed after wait: none | success | failure
    \* ---- symbol ramp (RampSpec)
    gray_image,   \* GrayImage given to convert_to_ascii
    ascii_art,    \* its result, <<>> before the call
    \* ---- colour filter (MaskSpec)
    maskIn,       \* RgbImage before apply_blue_mask
    maskOut,      \* the same buffer after it, <<>> before the call
    \* ---- glyph drawing (RenderSpec)
    site,         \* which drawing loop: "ascii" | "video" | "image"
    rpc,          \* draw | done | panic
    cv,           \* the canvas: [width, height, px: <<x, y>> -> <<r, g, b>>]
    before,       \* the canvas as it was before the first glyph
    boxes,        \* canvas coordinates inside a bounding box drawn so far
    lastBox,      \* bounding box of the glyph drawn last, <<>> if none
    lastTouched,  \* canvas coordinates the last glyph wrote
    nGlyphs       \* glyphs handled so far

drvVars == <<driver, pc, encoder, stdinOpen, img, canvas, frame_count, written,
             lastWrite, pipeRem, decoded, err, exitCode, waited, reported>>

rampVars == <<gray_image, ascii_art>>
maskVars == <<maskIn, maskOut>>
renderVars == <<site, rpc, cv, before, boxes, lastBox, lastTouched, nGlyphs>>

pureVars == <<rampVars, maskVars, renderVars>>

vars == <<drvVars, pureVars>>

----------------------------------------------------------------------------
(* Program constants *)

OUTPUT_WIDTH == 1280
OUTPUT_HEIGHT == 720
max_frames == 30 * 5
VideoWidth == 1280
VideoHeight == 720
TextLen == 11
TextX0 == 10
TextAdvance == 15
TextY0 == 30
ExitFailure == 1
ExitPanic == 101

(* Bounds of the model *)

\* Frames counted for the drivers that keep no counter of their own.
MaxCounted == 3

\* exitCode while main() has not returned
Running == 0 - 1

Drivers == {"ascii", "overlay", "still"}
Streaming == {"ascii", "overlay"}

\* Resolutions the camera may deliver: set_format's answer (the format the
\* device actually chose) is discarded, and the JPEG decoder returns
\* whatever size the frame carries.
DecodedDims == {<<1280, 720>>, <<640, 480>>, <<320, 180>>, <<160, 120>>}

\* The resolution given to ffmpeg on its command line.
DeclaredDims(d) ==
    IF d = "ascii" THEN <<OUTPUT_WIDTH, OUTPUT_HEIGHT>>
    ELSE <<VideoWidth, VideoHeight>>

FrameBytes(dims) == dims[1] * dims[2] * 3

Min(a, b) == IF a < b THEN a ELSE b

----------------------------------------------------------------------------
(* Driver *)

DriverInit ==
    /\ driver \in Drivers
    /\ pc = IF driver = "still" THEN "pull" ELSE "spawn"
    /\ encoder = "none"
    /\ stdinOpen = FALSE
    /\ img = <<0, 0>>
    /\ canvas = <<0, 0>>
    /\ frame_count = 0
    /\ written = 0
    /\ lastWrite = 0
    /\ pipeRem = 0
    /\ decoded = "none"
    /\ err = "none"
    /\ exitCode = Running
    /\ waited = FALSE
    /\ reported = "none"

\* `?` on an Err, or a panic: main() returns, its locals are dropped (the
\* pipe's write end closes), the Child is dropped without kill or wait.
ReturnErr(e, code) ==
    /\ pc' = "exited"
    /\ err' = e
    /\ exitCode' = code
    /\ stdinOpen' = FALSE
    /\ UNCHANGED <<waited, reported>>

\* Command::new("ffmpeg")...spawn()?  and taking the child's stdin.
SpawnEncoder ==
    /\ pc = "spawn"
    /\ \/ /\ encoder' = "running"
          /\ stdinOpen' = TRUE
          /\ pc' = "pull"
          /\ UNCHANGED <<err, exitCode, waited, reported>>
       \/ /\ ReturnErr("SinkUnavailable", ExitFailure)
          /\ UNCHANGED encoder
    /\ UNCHANGED pureVars
    /\ UNCHANGED <<driver, img, canvas, frame_count, written, lastWrite,
                   pipeRem, decoded>>

\* let (buf, _) = stream.next()?;
PullFrame ==
    /\ pc = "pull"
    /\ \/ /\ pc' = "decode"
          /\ UNCHANGED <<err, exitCode, stdinOpen, waited, reported>>
       \/ ReturnErr("CaptureError", ExitFailure)
    /\ UNCHANGED pureVars
    /\ UNCHANGED <<driver, encoder, img, canvas, frame_count, written,
                   lastWrite, pipeRem, decoded>>

\* image::load_from_memory_with_format(&buf, Jpeg)?.to_rgb8()
DecodeFrame ==
    /\ pc = "decode"
    /\ \/ /\ \E d \in DecodedDims : img' = d
          /\ decoded' = "ok"
          /\ pc' = "render"
          /\ UNCHANGED <<err, exitCode, stdinOpen, waited, reported>>
       \/ /\ decoded' = "err"
          /\ ReturnErr("DecodeError", ExitFailure)
          /\ UNCHANGED img
    /\ UNCHANGED pureVars
    /\ UNCHANGED <<driver, encoder, canvas, frame_count, written, lastWrite,
                   pipeRem>>

\* One pixel of each glyph of "Hello Rust!": the glyph's baseline is at
\* (10.0 + i * 15.0, 30.0 + ascent), so its box starts at about
\* (10 + 15 i, 30); the last glyph's box starts at x = 160.
TextPixels == { <<TextX0 + i * TextAdvance, TextY0>> : i \in 0 .. TextLen - 1 }

\* video.rs guards get_pixel_mut with the declared width and height, not
\* with the decoded image's: a pixel that passes the guard and lies outside
\* the image makes get_pixel_mut panic.
OverlayPanics(dims) ==
    \E p \in TextPixels :
        /\ p[1] < VideoWidth /\ p[2] < VideoHeight
        /\ ~(p[1] < dims[1] /\ p[2] < dims[2])

\* The per-frame processing between decode and sink write.
\*   ascii:   mask, resize, grayscale, convert_to_ascii, create_ascii_image
\*            (a fresh OUTPUT_WIDTH x OUTPUT_HEIGHT canvas)
\*   overlay: text drawn in place on the decoded image
\*   still:   text drawn on a clone, guarded by the clone's own size
RenderFrame ==
    /\ pc = "render"
    /\ \/ /\ driver = "ascii"
          /\ canvas' = <<OUTPUT_WIDTH, OUTPUT_HEIGHT>>
          /\ pc' = "write"
          /\ UNCHANGED <<err, exitCode, stdinOpen, waited, reported>>
       \/ /\ driver = "overlay"
          /\ ~OverlayPanics(img)
          /\ canvas' = img
          /\ pc' = "write"
          /\ UNCHANGED <<err, exitCode, stdinOpen, waited, reported>>
       \/ /\ driver = "overlay"
          /\ OverlayPanics(img)
          /\ ReturnErr("Panic", ExitPanic)
          /\ UNCHANGED canvas
       \/ /\ driver = "still"
          /\ canvas' = img
          /\ pc' = "write"
          /\ UNCHANGED <<err, exitCode, stdinOpen, waited, reported>>
    /\ UNCHANGED pureVars
    /\ UNCHANGED <<driver, encoder, img, frame_count, written, lastWrite,
                   pipeRem, decoded>>

\* The sink took one frame.  `written` is exact for the ascii driver (it
\* cannot pass max_frames) and saturates at MaxCounted for the drivers
\* whose loop has no counter.
Accepted ==
    /\ written' = IF driver = "ascii" THEN written + 1
                  ELSE Min(written + 1, MaxCounted)
    /\ lastWrite' = FrameBytes(canvas)
    /\ pipeRem' = (pipeRem + FrameBytes(canvas)) % FrameBytes(DeclaredDims(driver))

\* write_all on the pipe fails (EPIPE; Rust ignores SIGPIPE) once the
\* reader is gone, and succeeds, possibly after blocking, while it lives.
\*   ascii:   if let Err(e) = stdin.write_all(..) { eprintln!; break; }
\*   overlay: ffmpeg_stdin.write_all(..)?;  then the next iteration
\*   still:   img_draw.save("frame.png")?;  sleep; then the next iteration
WriteFrame ==
    /\ pc = "write"
    /\ \/ /\ driver = "ascii"
          /\ encoder = "running"
          /\ Accepted
          /\ pc' = "check"
          /\ UNCHANGED <<err, exitCode, stdinOpen, waited, reported>>
       \/ /\ driver = "ascii"
          /\ encoder # "running"
          /\ err' = "BrokenPipe"
          /\ pc' = "close"
          /\ UNCHANGED <<written, lastWrite, pipeRem, exitCode, stdinOpen,
                         waited, reported>>
       \/ /\ driver = "overlay"
          /\ encoder = "running"
          /\ Accepted
          /\ pc' = "pull"
          /\ UNCHANGED <<err, exitCode, stdinOpen, waited, reported>>
       \/ /\ driver = "overlay"
          /\ encoder # "running"
          /\ ReturnErr("BrokenPipe", ExitFailure)
          /\ UNCHANGED <<written, lastWrite, pipeRem>>
       \/ /\ driver = "still"
          /\ written' = Min(written + 1, MaxCounted)
          /\ pc' = "pull"
          /\ UNCHANGED <<lastWrite, pipeRem, err, exitCode, stdinOpen,
                         waited, reported>>
       \/ /\ driver = "still"
          /\ ReturnErr("IOError", ExitFailure)
          /\ UNCHANGED <<written, lastWrite, pipeRem>>
    /\ UNCHANGED pureVars
    /\ UNCHANGED <<driver, encoder, img, canvas, frame_count, decoded>>

\* frame_count += 1; if frame_count >= max_frames { break; }
CheckStop ==
    /\ pc = "check"
    /\ frame_count' = frame_count + 1
    /\ pc' = IF frame_count + 1 >= max_frames THEN "close" ELSE "pull"
    /\ UNCHANGED pureVars
    /\ UNCHANGED <<driver, encoder, stdinOpen, img, canvas, written,
                   lastWrite, pipeRem, decoded, err, exitCode, waited,
                   reported>>

\* drop(stdin);
CloseStdin ==
    /\ pc = "close"
    /\ stdinOpen' = FALSE
    /\ pc' = "wait"
    /\ UNCHANGED pureVars
    /\ UNCHANGED <<driver, encoder, img, canvas, frame_count, written,
                   lastWrite, pipeRem, decoded, err, exitCode, waited,
                   reported>>

\* let status = ffmpeg.wait()?; the status is printed; Ok(()).
\* wait() blocks until the child has exited.
WaitEncoder ==
    /\ pc = "wait"
    /\ encoder \in {"succeeded", "failed"}
    /\ waited' = TRUE
    /\ reported' = IF encoder = "succeeded" THEN "success" ELSE "failure"
    /\ exitCode' = 0
    /\ pc' = "exited"
    /\ UNCHANGED pureVars
    /\ UNCHANGED <<driver, encoder, stdinOpen, img, canvas, frame_count,
                   written, lastWrite, pipeRem, decoded, err>>

DriverStep ==
    \/ SpawnEncoder
    \/ PullFrame
    \/ DecodeFrame
    \/ RenderFrame
    \/ WriteFrame
    \/ CheckStop
    \/ CloseStdin
    \/ WaitEncoder

\* The consumer dies on its own while the driver is streaming.
EncoderDies ==
    /\ encoder = "running"
    /\ stdinOpen
    /\ encoder' = "failed"
    /\ UNCHANGED pureVars
    /\ UNCHANGED <<driver, pc, stdinOpen, img, canvas, frame_count, written,
                   lastWrite, pipeRem, decoded, err, exitCode, waited,
                   reported>>

\* The consumer reads end-of-file and exits, with either status.
EncoderEof ==
    /\ encoder = "running"
    /\ ~stdinOpen
    /\ encoder' \in {"succeeded", "failed"}
    /\ UNCHANGED pureVars
    /\ UNCHANGED <<driver, pc, stdinOpen, img, canvas, frame_count, written,
                   lastWrite, pipeRem, decoded, err, exitCode, waited,
                   reported>>

\* Each specification runs one part of the program; the variables of the
\* other parts rest at these values.
DriverIdle ==
    /\ driver = "none" /\ pc = "idle" /\ encoder = "none"
    /\ stdinOpen = FALSE /\ img = <<0, 0>> /\ canvas = <<0, 0>>
    /\ frame_count = 0 /\ written = 0 /\ lastWrite = 0 /\ pipeRem = 0
    /\ decoded = "none" /\ err = "none" /\ exitCode = Running
    /\ waited = FALSE /\ reported = "none"

RampIdle == gray_image = <<>> /\ ascii_art = <<>>

MaskIdle == maskIn = <<>> /\ maskOut = <<>>

RenderIdle ==
    /\ site = "none" /\ rpc = "idle" /\ cv = <<>> /\ before = <<>>
    /\ boxes = {} /\ lastBox = <<>> /\ lastTouched = {} /\ nGlyphs = 0

Init == DriverInit /\ RampIdle /\ MaskIdle /\ RenderIdle

Next ==
    \/ DriverStep
    \/ EncoderDies
    \/ EncoderEof

Spec == Init /\ [][Next]_vars

\* main() is one thread that always takes its next step, and a consumer
\* that has read end-of-file exits.
FairSpec == Spec /\ WF_vars(DriverStep) /\ WF_vars(EncoderEof)

----------------------------------------------------------------------------
(* Symbol ramp: convert_pixel_to_ascii, convert_to_ascii (main.rs) *)

GrayW == 2
GrayH == 2

ASCII_CHARS ==
    <<" ", ".", "'", ",", ":", ";", "c", "l", "x", "o", "k", "X", "d", "O",
      "0", "K", "N">>

Intensities == 0 .. 255

\* Variant: the divisor is 256, the number of intensities.
RampIndexDiv256(intensity) == (intensity * (Len(ASCII_CHARS) - 1)) \div 256

\* let index = (intensity as usize * (ASCII_CHARS.len() - 1)) / 255;
RampIndex(intensity) == (intensity * (Len(ASCII_CHARS) - 1)) \div 255

\* ASCII_CHARS[index], the slice being 0-based
convert_pixel_to_ascii(intensity) == ASCII_CHARS[RampIndex(intensity) + 1]

\* gray_image.get_pixel(x, y)[0] on a row-major buffer
GrayPixel(g, x, y) == g.pixels[y * g.width + x + 1]

\* for y in 0..height { for x in 0..width { row.push(..) } ascii_art.push(row) }
convert_to_ascii(g) ==
    [y \in 1 .. g.height |->
        [x \in 1 .. g.width |->
            convert_pixel_to_ascii(GrayPixel(g, x - 1, y - 1))]]

\* A two-tone image: tone a where x + y is even, tone b elsewhere.
TwoTone(w, h, a, b) ==
    [width |-> w, height |-> h,
     pixels |-> [k \in 1 .. w * h |->
                    IF (((k - 1) % w) + ((k - 1) \div w)) % 2 = 0 THEN a ELSE b]]

RampInit ==
    /\ \E a \in Intensities, b \in Intensities :
          gray_image = TwoTone(GrayW, GrayH, a, b)
    /\ ascii_art = <<>>
    /\ DriverIdle /\ MaskIdle /\ RenderIdle

ConvertToAscii ==
    /\ ascii_art = <<>>
    /\ ascii_art' = convert_to_ascii(gray_image)
    /\ UNCHANGED <<gray_image, drvVars, maskVars, renderVars>>

RampNext == ConvertToAscii

RampSpec == RampInit /\ [][RampNext]_vars

----------------------------------------------------------------------------
(* Colour filter: apply_blue_mask (main.rs) *)

MaskW == 2
MaskH == 1

lower_blue == <<0, 0, 100>>
upper_blue == <<120, 100, 255>>

Black == <<0, 0, 0>>

\* Variant: the upper ends of the ranges are excluded.
InBlueRangeStrict(pixel) ==
    /\ pixel[1] >= lower_blue[1] /\ pixel[1] < upper_blue[1]
    /\ pixel[2] >= lower_blue[2] /\ pixel[2] < upper_blue[2]
    /\ pixel[3] >= lower_blue[3] /\ pixel[3] < upper_blue[3]

\* r >= lower_blue[0] && r <= upper_blue[0] && g >= .. && b <= upper_blue[2]
InBlueRange(pixel) ==
    /\ pixel[1] >= lower_blue[1] /\ pixel[1] <= upper_blue[1]
    /\ pixel[2] >= lower_blue[2] /\ pixel[2] <= upper_blue[2]
    /\ pixel[3] >= lower_blue[3] /\ pixel[3] <= upper_blue[3]

\* for pixel in img.pixels_mut() { if in range { *pixel = Rgb([0, 0, 0]) } }
apply_blue_mask(image) ==
    [image EXCEPT !.pixels =
        [k \in DOMAIN image.pixels |->
            IF InBlueRange(image.pixels[k]) THEN Black ELSE image.pixels[k]]]

\* Channel values at and around the endpoints of each range.
MaskReds == {0, 1, 119, 120, 121, 255}
MaskGreens == {0, 99, 100, 101, 255}
MaskBlues == {0, 99, 100, 101, 255}
MaskColours == MaskReds \X MaskGreens \X MaskBlues

TwoColour(w, h, a, b) ==
    [width |-> w, height |-> h,
     pixels |-> [k \in 1 .. w * h |->
                    IF (((k - 1) % w) + ((k - 1) \div w)) % 2 = 0 THEN a ELSE b]]

MaskInit ==
    /\ \E a \in MaskColours, b \in MaskColours :
          maskIn = TwoColour(MaskW, MaskH, a, b)
    /\ maskOut = <<>>
    /\ DriverIdle /\ RampIdle /\ RenderIdle

ApplyBlueMask ==
    /\ maskOut = <<>>
    /\ maskOut' = apply_blue_mask(maskIn)
    /\ UNCHANGED <<maskIn, drvVars, rampVars, renderVars>>

MaskNext == ApplyBlueMask

MaskSpec == MaskInit /\ [][MaskNext]_vars

----------------------------------------------------------------------------
(* Glyph drawing: create_ascii_image (main.rs) and the text overlay loops  *)
(* of video.rs and image.rs, on canvases of a few pixels.                  *)

MinCanvas == 1
MaxCanvas == 2
\* video.rs: let width = 1280; let height = 720;  scaled to the canvases
DeclW == 2
DeclH == 1
\* main.rs: char_width, char_height and the columns of the grid, scaled
CellW == 2
CellH == 2
GridCols == 2
\* video.rs, image.rs: the text's origin and advance (10.0, 30.0, 15.0), scaled
PenX0 == 1
PenY0 == 1
Advance == 2
\* how far left of and above its pen position a bounding box may start
BoxBelow == 1
MaxGlyphSide == 2
MaxGlyphs == 2
CovSteps == 2

Sites == {"ascii", "video", "image"}

Coords(w, h) == (0 .. w - 1) \X (0 .. h - 1)

\* `as u32` of an i32: the value modulo 2^32, kept as <<high, low>> halves
\* of 16 bits each.
AsU32(v) == <<(v \div 65536) % 65536, v % 65536>>

\* `<` on u32
U32Lt(a, b) == a[1] < b[1] \/ (a[1] = b[1] /\ a[2] < b[2])

\* (v * 255.0) as u8, for a coverage v = k / CovSteps in [0, 1]
CoverageByte(k) == (k * 255) \div CovSteps

\* Top left corner of the n-th glyph's cell.
\*   ascii:        (col_idx * char_width, row_idx * char_height + ascent),
\*                 less the ascent
\*   video, image: (10.0 + i * 15.0, 30.0 + ascent), less the ascent
PenOf(s, n) ==
    IF s = "ascii" THEN <<(n % GridCols) * CellW, (n \div GridCols) * CellH>>
    ELSE <<PenX0 + n * Advance, PenY0>>

\* The rasterizer's answer for the n-th glyph: its pixel bounding box (min
\* corner at or a little before the cell's corner, and a side) and a
\* coverage for each pixel of the box.
GlyphsAt(s, n) ==
    { [minx |-> PenOf(s, n)[1] - dx, miny |-> PenOf(s, n)[2] - dy,
       w |-> side, h |-> side] :
        dx \in 0 .. BoxBelow, dy \in 0 .. BoxBelow, side \in 1 .. MaxGlyphSide }

GlyphPixels(g) == (0 .. g.w - 1) \X (0 .. g.h - 1)

Coverage(g, q) == (q[1] + 2 * q[2] + g.w) % (CovSteps + 1)

\* let px = (bb.min.x + x as i32) as u32; let py = (bb.min.y + y as i32) as u32;
AbsPixel(g, q) == <<AsU32(g.minx + q[1]), AsU32(g.miny + q[2])>>

\* The width and height the drawing closure compares against.
\*   ascii: output_width, output_height, the size the canvas was made with
\*   image: img.width(), img.height()
\*   video: the width and height declared for the capture format
GuardDims(s, c) ==
    IF s = "video" THEN <<DeclW, DeclH>> ELSE <<c.width, c.height>>

\* if px < width && py < height
PassesGuard(s, c, a) ==
    /\ U32Lt(a[1], AsU32(GuardDims(s, c)[1]))
    /\ U32Lt(a[2], AsU32(GuardDims(s, c)[2]))

\* get_pixel_mut finds the pixel when x < width and y < height of the
\* image itself, and panics otherwise.
InImage(c, a) ==
    /\ U32Lt(a[1], AsU32(c.width))
    /\ U32Lt(a[2], AsU32(c.height))

\* Variant: the coverage is written to all three channels.
BlendGrey(s, pixel, k) ==
    <<CoverageByte(k), CoverageByte(k), CoverageByte(k)>>

\* ascii:        *pixel = Rgb([0, (v * 255.0) as u8, 0]);
\* video, image: *pixel = Rgb([(v * 255.0) as u8, pixel[1], pixel[2]]);
Blend(s, pixel, k) ==
    IF s = "ascii" THEN <<0, CoverageByte(k), 0>>
    ELSE <<CoverageByte(k), pixel[2], pixel[3]>>

\* The glyph pixels the closure writes, as canvas coordinates.
Written(s, c, g) ==
    { p \in DOMAIN c.px :
        \E q \in GlyphPixels(g) :
            /\ AbsPixel(g, q) = <<AsU32(p[1]), AsU32(p[2])>>
            /\ PassesGuard(s, c, AbsPixel(g, q)) }

DrawPanics(s, c, g) ==
    \E q \in GlyphPixels(g) :
        PassesGuard(s, c, AbsPixel(g, q)) /\ ~InImage(c, AbsPixel(g, q))

\* glyph.draw(|x, y, v| { .. }) over every pixel of the bounding box
Draw(s, c, g) ==
    LET wr == Written(s, c, g) IN
    [c EXCEPT !.px =
        [p \in DOMAIN c.px |->
            IF p \in wr
            THEN LET q == CHOOSE q \in GlyphPixels(g) :
                              AbsPixel(g, q) = <<AsU32(p[1]), AsU32(p[2])>>
                 IN  Blend(s, c.px[p], Coverage(g, q))
            ELSE c.px[p]]]

\* Canvas coordinates inside the glyph's bounding box.
InBox(g, w, h) ==
    { p \in Coords(w, h) :
        /\ g.minx <= p[1] /\ p[1] < g.minx + g.w
        /\ g.miny <= p[2] /\ p[2] < g.miny + g.h }

BgLight == <<200, 100, 50>>
BgDark == <<9, 0, 255>>

\* create_ascii_image starts from a canvas filled with black; the overlay
\* loops start from the decoded frame.
StartCanvas(s, w, h, a, b) ==
    [width |-> w, height |-> h,
     px |-> [p \in Coords(w, h) |->
               IF s = "ascii" THEN Black
               ELSE IF (p[1] + p[2]) % 2 = 0 THEN a ELSE b]]


RenderInit ==
    /\ site \in Sites
    /\ \E w \in MinCanvas .. MaxCanvas, h \in MinCanvas .. MaxCanvas :
          cv = StartCanvas(site, w, h, BgLight, BgDark)
    /\ before = cv
    /\ rpc = "draw"
    /\ boxes = {}
    /\ lastBox = <<>>
    /\ lastTouched = {}
    /\ nGlyphs = 0
    /\ DriverIdle /\ RampIdle /\ MaskIdle

\* if let Some(bb) = glyph.pixel_bounding_box() { glyph.draw(..) }
DrawGlyph ==
    /\ rpc = "draw"
    /\ nGlyphs < MaxGlyphs
    /\ \E g \in GlyphsAt(site, nGlyphs) :
          /\ lastBox' = g
          /\ boxes' = boxes \cup InBox(g, cv.width, cv.height)
          /\ \/ /\ ~DrawPanics(site, cv, g)
                /\ cv' = Draw(site, cv, g)
                /\ lastTouched' = Written(site, cv, g)
                /\ rpc' = "draw"
             \/ /\ DrawPanics(site, cv, g)
                /\ rpc' = "panic"
                /\ UNCHANGED <<cv, lastTouched>>
    /\ nGlyphs' = nGlyphs + 1
    /\ UNCHANGED <<site, before, drvVars, rampVars, maskVars>>

\* pixel_bounding_box() is None (a glyph with no outline, such as ' ')
SkipGlyph ==
    /\ rpc = "draw"
    /\ nGlyphs < MaxGlyphs
    /\ nGlyphs' = nGlyphs + 1
    /\ lastBox' = <<>>
    /\ lastTouched' = {}
    /\ UNCHANGED <<site, rpc, cv, before, boxes, drvVars, rampVars, maskVars>>

\* the loops over the characters end
FinishRender ==
    /\ rpc = "draw"
    /\ rpc' = "done"
    /\ UNCHANGED <<site, cv, before, boxes, lastBox, lastTouched, nGlyphs,
                   drvVars, rampVars, maskVars>>

RenderNext ==
    \/ DrawGlyph
    \/ SkipGlyph
    \/ FinishRender

RenderSpec == RenderInit /\ [][RenderNext]_vars






----------------------------------------------------------------------------
(* Properties *)

LoopPcs == {"pull", "decode", "render", "write", "check"}

\* C1: in every driver loop a frame whose decoding fails is dropped and
\* nothing else happens: nothing is written to the sink for it, the driver
\* does not terminate, and the loop goes on to pull the next frame.
C1_DecodeErrorDropsOnlyTheFrame ==
    [][(pc = "decode" /\ pc' # "decode" /\ decoded' = "err") =>
          /\ pc' = "pull"
          /\ exitCode' = Running
          /\ written' = written
          /\ lastWrite' = lastWrite]_vars

\* C2: in every streaming driver, once a write to the encoder pipe has
\* failed with BrokenPipe no further frame is pulled or written, the loop
\* ends, the pipe is closed, and the consumer's exit status is collected
\* and reported before the process ends.
C2_BrokenPipeClosesAndReports ==
    err = "BrokenPipe" =>
        /\ pc \notin LoopPcs
        /\ pc = "exited" => (~stdinOpen /\ waited /\ reported # "none")

\* C3: every driver loop checks a stop condition once per iteration, so a
\* driver whose pulls, decodes and writes all succeed terminates; the
\* frame-limited driver stops after exactly max_frames written frames, its
\* frame_count equal to the frames written and never above max_frames.
C3_EveryLoopStops ==
    /\ [](driver = "ascii" /\ pc # "check" =>
             frame_count = written /\ frame_count <= max_frames)
    /\ [](driver = "ascii" /\ pc = "exited" /\ err = "none" =>
             written = max_frames)
    /\ <>(pc = "exited")

\* C4: every chunk a streaming driver writes to the encoder has the size
\* of one frame of the resolution declared to the encoder, and the bytes
\* written so far are a whole multiple of that size, whatever size the
\* decoded frame has.
C4_WritesDeclaredFrameSize ==
    driver \in Streaming =>
        /\ lastWrite \in {0, FrameBytes(DeclaredDims(driver))}
        /\ pipeRem = 0

\* C5: a driver that ended on a fatal error (CaptureError, SinkUnavailable,
\* BrokenPipe) exits non-zero, and a driver exits with status zero only
\* when its loop stopped through the stop condition.
C5_FatalErrorsExitNonZero ==
    pc = "exited" =>
        /\ err \in {"CaptureError", "SinkUnavailable", "BrokenPipe"} =>
              exitCode # 0
        /\ exitCode = 0 => (err = "none" /\ frame_count >= max_frames)

\* C6: once the encoder has been spawned, a streaming driver ends only
\* after it has closed the pipe and then waited for the consumer and
\* collected its status; a failure status is reported and the exit is not
\* turned into an error by it.
C6_EncoderShutDownOnEveryPath ==
    /\ (pc = "exited" /\ encoder # "none") =>
          (~stdinOpen /\ waited /\ reported # "none")
    /\ waited => ~stdinOpen
    /\ (pc = "exited" /\ reported = "failure") => exitCode = 0

PosInRamp(ch) == CHOOSE k \in 1 .. Len(ASCII_CHARS) : ASCII_CHARS[k] = ch

\* C7: convert_pixel_to_ascii(i) is ramp[floor(i * (N - 1) / 255)] for the
\* ramp of length N: the index lies in 0 .. N-1, does not decrease as the
\* intensity increases, is 0 for intensity 0 and N - 1 for intensity 255.
C7_RampIndexing ==
    ascii_art # <<>> =>
        LET N == Len(ASCII_CHARS)
            cells == (1 .. gray_image.height) \X (1 .. gray_image.width)
            int(c) == GrayPixel(gray_image, c[2] - 1, c[1] - 1)
            sym(c) == ascii_art[c[1]][c[2]]
        IN  /\ \A c \in cells :
                 /\ \E k \in 0 .. N - 1 :
                       /\ sym(c) = ASCII_CHARS[k + 1]
                       /\ k * 255 <= int(c) * (N - 1)
                       /\ int(c) * (N - 1) < (k + 1) * 255
                 /\ int(c) = 0 => sym(c) = ASCII_CHARS[1]
                 /\ int(c) = 255 => sym(c) = ASCII_CHARS[N]
            /\ \A c \in cells, d \in cells :
                 int(c) <= int(d) => PosInRamp(sym(c)) <= PosInRamp(sym(d))

\* An image holding the darkest and the lightest intensity was converted.
C7_Witness ==
    /\ ascii_art # <<>>
    /\ gray_image.pixels[1] = 0
    /\ gray_image.pixels[2] = 255
    /\ ascii_art[1][1] = " "
    /\ ascii_art[1][2] = "N"

\* C8: apply_blue_mask makes a pixel (0,0,0) exactly when R is in [0,120],
\* G in [0,100] and B in [100,255], endpoints included; any other pixel
\* keeps its value; the buffer keeps its dimensions and its length.
C8_BlueMaskClosedRanges ==
    maskOut # <<>> =>
        /\ maskOut.width = maskIn.width
        /\ maskOut.height = maskIn.height
        /\ Len(maskOut.pixels) = Len(maskIn.pixels)
        /\ \A k \in 1 .. Len(maskIn.pixels) :
              LET p == maskIn.pixels[k] IN
              IF /\ 0 <= p[1] /\ p[1] <= 120
                 /\ 0 <= p[2] /\ p[2] <= 100
                 /\ 100 <= p[3] /\ p[3] <= 255
              THEN maskOut.pixels[k] = <<0, 0, 0>>
              ELSE maskOut.pixels[k] = p

\* A pixel on the endpoints of all three ranges was blackened beside one
\* just past the red range's end, which was kept.
C8_Witness ==
    /\ maskOut # <<>>
    /\ maskIn.pixels[1] = <<120, 100, 100>>
    /\ maskOut.pixels[1] = <<0, 0, 0>>
    /\ maskIn.pixels[2] = <<121, 100, 100>>
    /\ maskOut.pixels[2] = <<121, 100, 100>>

ClipsToCanvas ==
    /\ rpc # "panic"
    /\ lastBox # <<>> => lastTouched = InBox(lastBox, cv.width, cv.height)
    /\ cv.width = before.width /\ cv.height = before.height
    /\ DOMAIN cv.px = DOMAIN before.px

\* C9: in both rendering operations a glyph pixel is written exactly when
\* its absolute coordinate lies inside the canvas; the others, negative or
\* too large, are discarded without an error, and the canvas keeps its size.
C9_GlyphPixelsClipped ==
    rpc # "idle" => ClipsToCanvas

\* The part of C9 that holds: the drawing loops that compare against the
\* canvas's own size (create_ascii_image, image.rs).
C9_ClippedWhereGuardIsCanvasSize ==
    site \in {"ascii", "image"} => ClipsToCanvas

\* C10: the text overlay leaves the G and B value of every canvas pixel,
\* and every pixel outside all glyph bounding boxes, as they were; after
\* the ArtGrid render every pixel has R = 0 and B = 0 and a pixel outside
\* all glyph bounding boxes is (0,0,0).
C10_OnlyDesignatedChannel ==
    rpc \in {"draw", "done"} =>
        \A p \in DOMAIN cv.px :
            IF site = "ascii"
            THEN /\ cv.px[p][1] = 0
                 /\ cv.px[p][3] = 0
                 /\ p \notin boxes => cv.px[p] = <<0, 0, 0>>
            ELSE /\ cv.px[p][2] = before.px[p][2]
                 /\ cv.px[p][3] = before.px[p][3]
                 /\ p \notin boxes => cv.px[p] = before.px[p]

\* A text overlay ended having changed one pixel and left another alone.
C10_Witness ==
    /\ rpc = "done"
    /\ site = "video"
    /\ \E p \in DOMAIN cv.px : cv.px[p] # before.px[p]
    /\ \E p \in DOMAIN cv.px : p \notin boxes
=============================================================================
